---------------------------- MODULE Spec2Model ----------------------------
(***************************************************************************)
(* A model of src/shapes-graph.js of rdf-validate-shacl: the ShapesGraph   *)
(* registry (constraint components, the parameter index, the memoized      *)
(* Shape objects and the two lazily computed lists), the Shape and         *)
(* Constraint constructors, target-node discovery and the compiler of      *)
(* SHACL property paths.                                                   *)
(*                                                                         *)
(* The graph layer (rdfquery, rdfquery/util, node-set) is not part of the  *)
(* modelled file; its operators are written from the interface the         *)
(* specification gives for it (section 6) and are marked as such.          *)
(***************************************************************************)
EXTENDS Naturals, Sequences, FiniteSets, TLC

VARIABLES
    rdfShapesGraph,            \* context.$shapes: the triples of the shapes graph, in iteration order
    components,                \* ShapesGraph.components
    parametersMap,             \* ShapesGraph.parametersMap: key -> index in components, 0 = no entry
    shapes,                    \* ShapesGraph.shapes: key -> reference into heap, 0 = no entry
    heap,                      \* every Shape object constructed so far, in construction order
    shapeNodesWithConstraints, \* ShapesGraph.shapeNodesWithConstraints (lazy)
    targetShapes,              \* ShapesGraph.targetShapes (lazy)
    ret,                       \* the last call and what it returned to its caller
    handedOut                  \* history: every <<node, Shape reference>> getShape has answered

vars == <<rdfShapesGraph, components, parametersMap, shapes, heap,
          shapeNodesWithConstraints, targetShapes, ret, handedOut>>

-----------------------------------------------------------------------------
(* Bounds of the model *)

\* parameter values v1..vNumValues that a shape node may assert for ex:p
NumValues == 2

\* depth of nested toRDFQueryPath calls the engine's call stack holds
MaxStack == 7

-----------------------------------------------------------------------------
(* RDF terms: compared by kind and value *)

NamedNode(v) == [termType |-> "NamedNode", value |-> v]
BlankNode(v) == [termType |-> "BlankNode", value |-> v]
Literal(v) == [termType |-> "Literal", value |-> v]
Collection(v, elems) == [termType |-> "Collection", value |-> v, elements |-> elems]

\* a position of a pattern left open (null or a ?variable)
Wild == [termType |-> "Variable", value |-> "?"]
\* JavaScript's undefined / null where a term is expected
Undefined == [termType |-> "undefined", value |-> ""]

rdfType == NamedNode("rdf:type")
rdfFirst == NamedNode("rdf:first")
rdfRest == NamedNode("rdf:rest")
rdfNil == NamedNode("rdf:nil")
rdfsClass == NamedNode("rdfs:Class")
shConstraintComponent == NamedNode("sh:ConstraintComponent")
shParameter == NamedNode("sh:parameter")
shPath == NamedNode("sh:path")
shOptional == NamedNode("sh:optional")
shSeverity == NamedNode("sh:severity")
shDeactivated == NamedNode("sh:deactivated")
shViolation == NamedNode("sh:Violation")
shTargetClass == NamedNode("sh:targetClass")
shTargetNode == NamedNode("sh:targetNode")
shTargetSubjectsOf == NamedNode("sh:targetSubjectsOf")
shTargetObjectsOf == NamedNode("sh:targetObjectsOf")
shTarget == NamedNode("sh:target")
shAlternativePath == NamedNode("sh:alternativePath")
shZeroOrMorePath == NamedNode("sh:zeroOrMorePath")
shOneOrMorePath == NamedNode("sh:oneOrMorePath")
shZeroOrOnePath == NamedNode("sh:zeroOrOnePath")
shInversePath == NamedNode("sh:inversePath")
trueLiteral == Literal("true")

Range(s) == {s[i] : i \in 1..Len(s)}

-----------------------------------------------------------------------------
(* The graph layer: pattern queries, NodeSet *)

Matches(t, s, p, o) ==
    /\ (s = Wild \/ t[1] = s)
    /\ (p = Wild \/ t[2] = p)
    /\ (o = Wild \/ t[3] = o)

\* graph.query().match(s, p, o): the matching triples, in the graph's order
match(g, s, p, o) == SelectSeq(g, LAMBDA t : Matches(t, s, p, o))

hasSolution(sols) == Len(sols) > 0

Column(sols, k) == [i \in 1..Len(sols) |-> sols[i][k]]

\* .getNode('?var'): the first binding, undefined when there is none
getNode(sols, k) == IF Len(sols) = 0 THEN Undefined ELSE sols[1][k]

\* .getNodeArray('?var'): every binding, one per solution
getNodeArray(sols, k) == Column(sols, k)

\* NodeSet.add: a NodeSet keeps one entry per term, in insertion order
add(set, term) == IF term \in Range(set) THEN set ELSE Append(set, term)

RECURSIVE addAll(_, _)
addAll(set, terms) ==
    IF Len(terms) = 0 THEN set
    ELSE addAll(add(set, Head(terms)), Tail(terms))

\* RDFQueryUtil.getInstancesOf: the subjects typed as cls, as a NodeSet
getInstancesOf(g, cls) == addAll(<<>>, getNodeArray(match(g, Wild, rdfType, cls), 1))

\* RDFQueryUtil.isInstanceOf
isInstanceOf(g, node, cls) == hasSolution(match(g, node, rdfType, cls))

\* RDFQuery.getLocalName: the part of an IRI after its namespace
getLocalName(iri) ==
    CASE iri = "ex:p" -> "p"
      [] iri = "ex:q" -> "q"
      [] iri = "ex:r" -> "r"
      [] OTHER -> iri

-----------------------------------------------------------------------------
(* ConstraintComponent *)

\* the (parameter, path) solutions of
\* match(node, 'sh:parameter', '?parameter').match('?parameter', 'sh:path', '?path')
RECURSIVE JoinPaths(_, _)
JoinPaths(g, paramTriples) ==
    IF Len(paramTriples) = 0 THEN <<>>
    ELSE LET parameter == Head(paramTriples)[3]
             paths == getNodeArray(match(g, parameter, shPath, Wild), 3)
         IN  [i \in 1..Len(paths) |-> [parameter |-> parameter, path |-> paths[i]]]
             \o JoinPaths(g, Tail(paramTriples))

solIsOptional(g, sol) == hasSolution(match(g, sol.parameter, shOptional, trueLiteral))

\* new ConstraintComponent(node, context); the validator slots come from the
\* validators registry and are read by no operation below
ConstraintComponent(g, node) ==
    LET sols == JoinPaths(g, match(g, node, shParameter, Wild))
        required == SelectSeq(sols, LAMBDA sol : ~solIsOptional(g, sol))
    IN  [node |-> node,
         parameters |-> [i \in 1..Len(sols) |-> sols[i].path],
         parameterNodes |-> [i \in 1..Len(sols) |-> sols[i].parameter],
         optionals |-> {sols[i].path.value : i \in {j \in 1..Len(sols) : solIsOptional(g, sols[j])}},
         requiredParameters |-> [i \in 1..Len(required) |-> required[i].path]]

getParameters(component) == component.parameters

isOptional(component, parameterURI) == parameterURI \in component.optionals

isComplete(g, component, shapeNode) ==
    \A i \in 1..Len(component.parameters) :
        LET parameter == component.parameters[i]
        IN  ~isOptional(component, parameter.value)
                => hasSolution(match(g, shapeNode, parameter, Wild))

-----------------------------------------------------------------------------
(* ShapesGraph construction *)

\* a JavaScript object used as a map: {} , map[key] (0 = undefined), map[key] = v
EmptyObject == [k \in {} |-> 0]
Get(map, key) == IF key \in DOMAIN map THEN map[key] ELSE 0
Put(map, key, v) == [k \in DOMAIN map \cup {key} |-> IF k = key THEN v ELSE map[k]]

\* this.parametersMap[parameters[j].value] = component, for every j
RECURSIVE RegisterParametersFirstWins(_, _, _)
RegisterParametersFirstWins(map, i, parameters) ==
    IF Len(parameters) = 0 THEN map
    ELSE LET k == Head(parameters).value
         IN  RegisterParametersFirstWins(
                 IF Get(map, k) = 0 THEN Put(map, k, i) ELSE map,
                 i, Tail(parameters))

RECURSIVE RegisterParameters(_, _, _)
RegisterParameters(map, i, parameters) ==
    IF Len(parameters) = 0 THEN map
    ELSE RegisterParameters(Put(map, Head(parameters).value, i), i, Tail(parameters))

\* the loop over this.components that builds the parameter index
RECURSIVE BuildParametersMap(_, _, _)
BuildParametersMap(map, comps, i) ==
    IF i > Len(comps) THEN map
    ELSE BuildParametersMap(RegisterParameters(map, i, getParameters(comps[i])), comps, i + 1)

ConstructComponents(g) ==
    LET componentNodes == getInstancesOf(g, shConstraintComponent)
    IN  [i \in 1..Len(componentNodes) |-> ConstraintComponent(g, componentNodes[i])]

\* getComponentWithParameter(parameter): an index into components, 0 = undefined
getComponentWithParameter(parameter) == Get(parametersMap, parameter.value)

-----------------------------------------------------------------------------
(* Constraint and Shape *)

\* new Constraint(shape, component, paramValue, rdfShapesGraph)
RECURSIVE BindParameters(_, _, _, _, _)
BindParameters(g, shapeNode, paramValue, params, parameterValues) ==
    IF Len(params) = 0 THEN parameterValues
    ELSE LET param == Head(params)
             value == IF paramValue # Undefined THEN paramValue
                      ELSE getNode(match(g, shapeNode, param, Wild), 3)
             bound == IF value # Undefined
                      THEN [n \in DOMAIN parameterValues \cup {getLocalName(param.value)} |->
                              IF n = getLocalName(param.value) THEN value ELSE parameterValues[n]]
                      ELSE parameterValues
         IN  BindParameters(g, shapeNode, paramValue, Tail(params), bound)

ConstraintIgnoringParamValue(g, shapeNode, c, paramValue) ==
    [component |-> c,
     paramValue |-> paramValue,
     parameterValues |-> BindParameters(g, shapeNode, Undefined,
                                        getParameters(components[c]), <<>>)]

Constraint(g, shapeNode, c, paramValue) ==
    [component |-> c,
     paramValue |-> paramValue,
     parameterValues |-> BindParameters(g, shapeNode, paramValue,
                                        getParameters(components[c]), <<>>)]

\* the forEach over match(shapeNode, '?predicate', '?object') in the Shape constructor
RECURSIVE CollectConstraintsNotHandled(_, _, _, _, _)
CollectConstraintsNotHandled(g, shapeNode, sols, constraints, handled) ==
    IF Len(sols) = 0 THEN constraints
    ELSE LET sol == Head(sols)
             c == getComponentWithParameter(sol[2])
         IN  IF c # 0 /\ components[c].node \notin handled
             THEN IF Len(getParameters(components[c])) = 1
                  THEN CollectConstraintsNotHandled(g, shapeNode, Tail(sols),
                           Append(constraints, Constraint(g, shapeNode, c, sol[3])), handled)
                  ELSE IF isComplete(g, components[c], shapeNode)
                  THEN CollectConstraintsNotHandled(g, shapeNode, Tail(sols),
                           Append(constraints, Constraint(g, shapeNode, c, Undefined)),
                           handled)
                  ELSE CollectConstraintsNotHandled(g, shapeNode, Tail(sols), constraints, handled)
             ELSE CollectConstraintsNotHandled(g, shapeNode, Tail(sols), constraints, handled)

RECURSIVE CollectConstraints(_, _, _, _, _)
CollectConstraints(g, shapeNode, sols, constraints, handled) ==
    IF Len(sols) = 0 THEN constraints
    ELSE LET sol == Head(sols)
             c == getComponentWithParameter(sol[2])
         IN  IF c # 0 /\ components[c].node \notin handled
             THEN IF Len(getParameters(components[c])) = 1
                  THEN CollectConstraints(g, shapeNode, Tail(sols),
                           Append(constraints, Constraint(g, shapeNode, c, sol[3])), handled)
                  ELSE IF isComplete(g, components[c], shapeNode)
                  THEN CollectConstraints(g, shapeNode, Tail(sols),
                           Append(constraints, Constraint(g, shapeNode, c, Undefined)),
                           handled \cup {components[c].node})
                  ELSE CollectConstraints(g, shapeNode, Tail(sols), constraints, handled)
             ELSE CollectConstraints(g, shapeNode, Tail(sols), constraints, handled)

\* new Shape(context, shapeNode)
Shape(g, shapeNode) ==
    LET severity == getNode(match(g, shapeNode, shSeverity, Wild), 3)
    IN  [severity |-> IF severity = Undefined THEN shViolation ELSE severity,
         deactivated |-> hasSolution(match(g, shapeNode, shDeactivated, trueLiteral)),
         path |-> getNode(match(g, shapeNode, shPath, Wild), 3),
         shapeNode |-> shapeNode,
         constraints |-> CollectConstraints(g, shapeNode, match(g, shapeNode, Wild, Wild),
                                            <<>>, {})]

getConstraints(shape) == shape.constraints

isPropertyShape(shape) == shape.path # Undefined

\* results.addAll(new RDFQueryUtil(rdfDataGraph).getInstancesOf(cls)) for every cls
RECURSIVE AddInstances(_, _, _)
AddInstances(rdfDataGraph, classes, results) ==
    IF Len(classes) = 0 THEN results
    ELSE AddInstances(rdfDataGraph, Tail(classes),
                      addAll(results, getInstancesOf(rdfDataGraph, Head(classes))))

\* results.addAll(rdfDataGraph.query().match('?subject', predicate, null)
\*                    .getNodeArray('?subject')) for every predicate
RECURSIVE AddSubjects(_, _, _)
AddSubjects(rdfDataGraph, predicates, results) ==
    IF Len(predicates) = 0 THEN results
    ELSE AddSubjects(rdfDataGraph, Tail(predicates),
                     addAll(results,
                            getNodeArray(match(rdfDataGraph, Wild, Head(predicates), Wild), 1)))

RECURSIVE AddObjects(_, _, _)
AddObjects(rdfDataGraph, predicates, results) ==
    IF Len(predicates) = 0 THEN results
    ELSE AddObjects(rdfDataGraph, Tail(predicates),
                    addAll(results,
                           getNodeArray(match(rdfDataGraph, Wild, Head(predicates), Wild), 3)))

\* Shape.getTargetNodes(rdfDataGraph)
getTargetNodesWithGenericTarget(g, shape, rdfDataGraph) ==
    LET declared(p) == getNodeArray(match(g, shape.shapeNode, p, Wild), 3)
        implicit == IF isInstanceOf(g, shape.shapeNode, rdfsClass)
                    THEN addAll(<<>>, getInstancesOf(rdfDataGraph, shape.shapeNode))
                    ELSE <<>>
        classes == AddInstances(rdfDataGraph, declared(shTargetClass), implicit)
        nodes == addAll(addAll(classes, declared(shTargetNode)), declared(shTarget))
        subjects == AddSubjects(rdfDataGraph, declared(shTargetSubjectsOf), nodes)
    IN  AddObjects(rdfDataGraph, declared(shTargetObjectsOf), subjects)

getTargetNodes(g, shape, rdfDataGraph) ==
    LET declared(p) == getNodeArray(match(g, shape.shapeNode, p, Wild), 3)
        implicit == IF isInstanceOf(g, shape.shapeNode, rdfsClass)
                    THEN addAll(<<>>, getInstancesOf(rdfDataGraph, shape.shapeNode))
                    ELSE <<>>
        classes == AddInstances(rdfDataGraph, declared(shTargetClass), implicit)
        nodes == addAll(classes, declared(shTargetNode))
        subjects == AddSubjects(rdfDataGraph, declared(shTargetSubjectsOf), nodes)
    IN  AddObjects(rdfDataGraph, declared(shTargetObjectsOf), subjects)

-----------------------------------------------------------------------------
(* The path compiler *)

\* RDFQueryUtil.getObject / RDFQuery.getObject: one object of (s, p, ?), or undefined
getObject(g, s, p) == getNode(match(g, s, p, Wild), 3)

\* RDFQueryUtil.rdfListToArray: the elements of a Collection term, or the
\* members of the rdf:first / rdf:rest chain that starts at list
RECURSIVE rdfListToArray(_, _)
rdfListToArray(g, list) ==
    IF list.termType = "Collection" THEN list.elements
    ELSE IF list = rdfNil \/ list = Undefined THEN <<>>
    ELSE <<getObject(g, list, rdfFirst)>> \o rdfListToArray(g, getObject(g, list, rdfRest))

\* a compiled path: a predicate, a sequence (a JavaScript array), or {or: [...]},
\* {zeroOrMore: p}, {oneOrMore: p}, {zeroOrOne: p}, {inverse: p}
Predicate(term) == [op |-> "predicate", term |-> term]
Compound(op, paths) == [op |-> op, paths |-> paths]
Unary(op, sub) == [op |-> op, path |-> sub]

Returned(compiled) == [kind |-> "path", path |-> compiled]
Thrown(error, term) == [kind |-> "error", error |-> error, term |-> term]

\* return shPath, the reading the TODO under the throw sketches
ReturnShPath(term) == Returned(Predicate(term))

\* throw new Error('Unsupported SHACL path ' + shPath)
Unsupported(term) == Thrown("Unsupported SHACL path", term)

\* what the engine throws when the call stack is exhausted
StackOverflow(term) == Thrown("RangeError: Maximum call stack size exceeded", term)

RECURSIVE toRDFQueryPath(_, _, _)
RECURSIVE CompileAll(_, _, _, _)

\* the loops result.push(toRDFQueryPath($shapes, paths[i])); a throw ends the loop
CompileAll(g, paths, depth, result) ==
    IF Len(paths) = 0 THEN Returned(result)
    ELSE LET first == toRDFQueryPath(g, Head(paths), depth)
         IN  IF first.kind = "error" THEN first
             ELSE CompileAll(g, Tail(paths), depth, Append(result, first.path))

\* { operator: toRDFQueryPath($shapes, sub) }
Wrap(g, op, sub, depth) ==
    LET inner == toRDFQueryPath(g, sub, depth)
    IN  IF inner.kind = "error" THEN inner ELSE Returned(Unary(op, inner.path))

WrapAll(g, op, paths, depth) ==
    LET inner == CompileAll(g, paths, depth, <<>>)
    IN  IF inner.kind = "error" THEN inner ELSE Returned(Compound(op, inner.path))

\* toRDFQueryPath($shapes, shPath), called at the given depth of the call stack
toRDFQueryPath(g, pathTerm, depth) ==
    IF depth > MaxStack THEN StackOverflow(pathTerm)
    ELSE IF pathTerm.termType = "Collection"
    THEN WrapAll(g, "sequence", rdfListToArray(g, pathTerm), depth + 1)
    ELSE IF pathTerm.termType = "NamedNode"
    THEN Returned(Predicate(pathTerm))
    ELSE IF pathTerm.termType = "BlankNode"
    THEN IF getObject(g, pathTerm, rdfFirst) # Undefined
         THEN WrapAll(g, "sequence", rdfListToArray(g, pathTerm), depth + 1)
         ELSE IF getObject(g, pathTerm, shAlternativePath) # Undefined
         THEN WrapAll(g, "or",
                      rdfListToArray(g, getObject(g, pathTerm, shAlternativePath)), depth + 1)
         ELSE IF getObject(g, pathTerm, shZeroOrMorePath) # Undefined
         THEN Wrap(g, "zeroOrMore", getObject(g, pathTerm, shZeroOrMorePath), depth + 1)
         ELSE IF getObject(g, pathTerm, shOneOrMorePath) # Undefined
         THEN Wrap(g, "oneOrMore", getObject(g, pathTerm, shOneOrMorePath), depth + 1)
         ELSE IF getObject(g, pathTerm, shZeroOrOnePath) # Undefined
         THEN Wrap(g, "zeroOrOne", getObject(g, pathTerm, shZeroOrOnePath), depth + 1)
         ELSE IF getObject(g, pathTerm, shInversePath) # Undefined
         THEN Wrap(g, "inverse", getObject(g, pathTerm, shInversePath), depth + 1)
         ELSE Unsupported(pathTerm)
    ELSE Unsupported(pathTerm)

-----------------------------------------------------------------------------
(* Path traversal of the graph layer: query().path(focus, path, '?object') *)

NodesOf(d) == {t[1] : t \in Range(d)} \cup {t[3] : t \in Range(d)}

RECURSIVE Reached(_, _, _)
RECURSIVE Closure(_, _, _)
RECURSIVE Through(_, _, _)

\* the nodes a path leads to from the nodes in from
Reached(d, from, compiled) ==
    CASE compiled.op = "predicate" ->
           {t[3] : t \in {u \in Range(d) : u[1] \in from /\ u[2] = compiled.term}}
      [] compiled.op = "sequence" -> Through(d, from, compiled.paths)
      [] compiled.op = "or" ->
           UNION {Reached(d, from, compiled.paths[i]) : i \in 1..Len(compiled.paths)}
      [] compiled.op = "zeroOrMore" -> Closure(d, from, compiled.path)
      [] compiled.op = "oneOrMore" ->
           Closure(d, Reached(d, from, compiled.path), compiled.path)
      [] compiled.op = "zeroOrOne" -> from \cup Reached(d, from, compiled.path)
      [] compiled.op = "inverse" ->
           {n \in NodesOf(d) : Reached(d, {n}, compiled.path) \cap from # {}}

\* repeated application until no new node is produced
Closure(d, from, compiled) ==
    LET more == from \cup Reached(d, from, compiled)
    IN  IF more = from THEN from ELSE Closure(d, more, compiled)

\* each stage's outputs are the next stage's inputs
Through(d, from, paths) ==
    IF Len(paths) = 0 THEN from
    ELSE Through(d, Reached(d, from, Head(paths)), Tail(paths))

RECURSIVE Listed(_)
Listed(set) ==
    IF set = {} THEN <<>>
    ELSE LET x == CHOOSE y \in set : TRUE IN <<x>> \o Listed(set \ {x})

queryPath(d, focusNode, compiled) == Listed(Reached(d, {focusNode}, compiled))

\* Shape.getValueNodes(focusNode, rdfDataGraph): the value nodes, or the
\* error toRDFQueryPath throws
getValueNodes(g, shape, focusNode, rdfDataGraph) ==
    IF shape.path # Undefined
    THEN LET compiled == toRDFQueryPath(g, shape.path, 1)
         IN  IF compiled.kind = "error" THEN compiled
             ELSE [kind |-> "nodes", nodes |-> queryPath(rdfDataGraph, focusNode, compiled.path)]
    ELSE [kind |-> "nodes", nodes |-> <<focusNode>>]

-----------------------------------------------------------------------------
(* ShapesGraph operations *)

\* getShape(shapeNode) on the registry state st = [shapes, heap]; shape is the
\* reference returned
getShapeNoMemo(st, shapeNode) ==
    LET h == Append(st.heap, Shape(rdfShapesGraph, shapeNode))
    IN  [shapes |-> Put(st.shapes, shapeNode.value, Len(h)),
         heap |-> h,
         shape |-> Len(h)]

getShape(st, shapeNode) ==
    LET shape == Get(st.shapes, shapeNode.value)
    IN  IF shape = 0
        THEN LET h == Append(st.heap, Shape(rdfShapesGraph, shapeNode))
             IN  [shapes |-> Put(st.shapes, shapeNode.value, Len(h)),
                  heap |-> h,
                  shape |-> Len(h)]
        ELSE [shapes |-> st.shapes, heap |-> st.heap, shape |-> shape]

\* the inner loop of getShapeNodesWithConstraints over one component's parameters
RECURSIVE AddShapeNodes(_, _, _)
AddShapeNodes(g, params, set) ==
    IF Len(params) = 0 THEN set
    ELSE AddShapeNodes(g, Tail(params),
                       addAll(set, getNodeArray(match(g, Wild, Head(params), Wild), 1)))

\* the outer loop, over the components
RECURSIVE CollectShapeNodesAllParameters(_, _, _, _)
CollectShapeNodesAllParameters(g, comps, i, set) ==
    IF i > Len(comps) THEN set
    ELSE CollectShapeNodesAllParameters(g, comps, i + 1,
                                        AddShapeNodes(g, comps[i].parameters, set))

RECURSIVE CollectShapeNodes(_, _, _, _)
CollectShapeNodes(g, comps, i, set) ==
    IF i > Len(comps) THEN set
    ELSE CollectShapeNodes(g, comps, i + 1, AddShapeNodes(g, comps[i].requiredParameters, set))

\* getShapeNodesWithConstraints(): the value of the cached field after the call
getShapeNodesWithConstraints ==
    IF ~shapeNodesWithConstraints.defined
    THEN [defined |-> TRUE, list |-> CollectShapeNodes(rdfShapesGraph, components, 1, <<>>)]
    ELSE shapeNodesWithConstraints

\* the condition under which getShapesWithTarget keeps a shape node
hasTargetNoGeneric(g, shapeNode) ==
    \/ isInstanceOf(g, shapeNode, rdfsClass)
    \/ hasSolution(match(g, shapeNode, shTargetClass, Wild))
    \/ hasSolution(match(g, shapeNode, shTargetNode, Wild))
    \/ hasSolution(match(g, shapeNode, shTargetSubjectsOf, Wild))
    \/ hasSolution(match(g, shapeNode, shTargetObjectsOf, Wild))

hasTarget(g, shapeNode) ==
    \/ isInstanceOf(g, shapeNode, rdfsClass)
    \/ hasSolution(match(g, shapeNode, shTargetClass, Wild))
    \/ hasSolution(match(g, shapeNode, shTargetNode, Wild))
    \/ hasSolution(match(g, shapeNode, shTargetSubjectsOf, Wild))
    \/ hasSolution(match(g, shapeNode, shTargetObjectsOf, Wild))
    \/ hasSolution(match(g, shapeNode, shTarget, Wild))

\* the loop of getShapesWithTarget over cs; st = [shapes, heap, list]
RECURSIVE PushTargetShapes(_, _)
PushTargetShapes(st, cs) ==
    IF Len(cs) = 0 THEN st
    ELSE LET shapeNode == Head(cs)
         IN  IF hasTarget(rdfShapesGraph, shapeNode)
             THEN LET got == getShape(st, shapeNode)
                  IN  PushTargetShapes([shapes |-> got.shapes, heap |-> got.heap,
                                        list |-> Append(st.list, got.shape)], Tail(cs))
             ELSE PushTargetShapes(st, Tail(cs))

-----------------------------------------------------------------------------
(* The shapes graphs the registry is built from *)

exA == NamedNode("ex:A")
exB == NamedNode("ex:B")
exP == NamedNode("ex:p")
exQ == NamedNode("ex:q")
exR == NamedNode("ex:r")
nodeS == NamedNode("s")
bnodeS == BlankNode("s")
nodeT == NamedNode("t")
exC == NamedNode("ex:C")
exD == NamedNode("ex:D")
exKnows == NamedNode("ex:knows")

Value(i) == Literal(CASE i = 1 -> "v1" [] i = 2 -> "v2" [] i = 3 -> "v3" [] OTHER -> "v4")

\* a parameter declaration: its path and whether it is marked sh:optional
Decl(path, optional) == [path |-> path, optional |-> optional]

\* the parameter declarations a component may carry (paths distinct within a
\* component, as SHACL requires of a well-formed component)
ParameterDecls ==
    { <<Decl(exP, FALSE)>>,
      <<Decl(exP, FALSE), Decl(exQ, FALSE)>>,
      <<Decl(exQ, FALSE), Decl(exP, TRUE)>>,
      <<Decl(exQ, FALSE)>> }

\* the blank node holding the i-th parameter declaration of a component
ParameterNode(node, i) ==
    BlankNode(CASE node = exA /\ i = 1 -> "A1"
                [] node = exA /\ i = 2 -> "A2"
                [] node = exB /\ i = 1 -> "B1"
                [] node = exB /\ i = 2 -> "B2"
                [] OTHER -> "par")

RECURSIVE DeclTriples(_, _, _)
DeclTriples(node, decls, i) ==
    IF i > Len(decls) THEN <<>>
    ELSE LET par == ParameterNode(node, i)
         IN  <<  <<node, shParameter, par>>, <<par, shPath, decls[i].path>> >>
             \o (IF decls[i].optional THEN << <<par, shOptional, trueLiteral>> >> ELSE <<>>)
             \o DeclTriples(node, decls, i + 1)

ComponentTriples(node, decls) ==
    << <<node, rdfType, shConstraintComponent>> >> \o DeclTriples(node, decls, 1)

\* the parameter triples shape nodes may assert
ShapeTripleUniverse ==
    [i \in 1..NumValues |-> <<nodeS, exP, Value(i)>>]
    \o << <<nodeS, exQ, Value(1)>>, <<bnodeS, exQ, Value(1)>> >>

\* t always asserts ex:p
parameterOfT == << <<nodeT, exP, Value(1)>> >>

\* the target declarations shape nodes may carry
TargetPredicates ==
    {shTargetClass, shTargetNode, shTargetSubjectsOf, shTargetObjectsOf, shTarget}

classOfS == << <<nodeS, shTargetClass, exC>> >>
nodeOfT == << <<nodeT, shTargetNode, exC>> >>

\* t is a target-node shape; at most one further declaration on s or on _:s,
\* or one on each of the two
TargetTriples ==
    { nodeOfT } \cup
    { << <<n, p, exC>> >> \o nodeOfT : n \in {nodeS, bnodeS}, p \in TargetPredicates }
    \cup { << <<n, rdfType, rdfsClass>> >> \o nodeOfT : n \in {nodeS, bnodeS} }
    \cup { << <<bnodeS, shTarget, exC>> >> \o classOfS }

Chosen(universe, chosen) == SelectSeq(universe, LAMBDA t : t \in chosen)

\* every pair of component declarations and every choice of parameter
\* triples, with s a target-class shape and t a target-node shape
ConstraintGraphs ==
    { ComponentTriples(exA, a) \o ComponentTriples(exB, b)
        \o Chosen(ShapeTripleUniverse, chosen) \o parameterOfT \o classOfS \o nodeOfT :
        a \in ParameterDecls, b \in ParameterDecls,
        chosen \in SUBSET Range(ShapeTripleUniverse) }

\* every choice of target declarations, over two pairs of components
TargetGraphs ==
    { ComponentTriples(exA, <<Decl(exP, FALSE)>>) \o ComponentTriples(exB, b)
        \o Chosen(ShapeTripleUniverse, Range(ShapeTripleUniverse) \ dropped)
        \o parameterOfT \o tt :
        b \in { <<Decl(exQ, FALSE)>>, <<Decl(exP, FALSE), Decl(exQ, FALSE)>> },
        dropped \in { {}, { <<nodeS, exQ, Value(1)>> } },
        tt \in TargetTriples }

ShapesGraphs == ConstraintGraphs \cup TargetGraphs

\* the shape nodes, parameters and so on that callers pass
ShapeNodes == {nodeS, bnodeS, nodeT}
Parameters == {exP, exQ, exR}

-----------------------------------------------------------------------------
(* The state after new ShapesGraph(context) *)

NoCall == [op |-> "none", arg |-> Undefined, val |-> 0]

Constructed ==
    /\ components = ConstructComponents(rdfShapesGraph)
    /\ parametersMap = BuildParametersMap(EmptyObject, components, 1)
    /\ shapes = EmptyObject
    /\ heap = <<>>
    /\ shapeNodesWithConstraints = [defined |-> FALSE, list |-> <<>>]
    /\ targetShapes = [defined |-> FALSE, list |-> <<>>]
    /\ ret = NoCall
    /\ handedOut = {}

Init ==
    /\ rdfShapesGraph \in ShapesGraphs
    /\ Constructed

-----------------------------------------------------------------------------
(* The calls a user of the ShapesGraph makes *)

GetComponentWithParameter(parameter) ==
    /\ ret' = [op |-> "getComponentWithParameter", arg |-> parameter,
               val |-> getComponentWithParameter(parameter)]
    /\ UNCHANGED <<rdfShapesGraph, components, parametersMap, shapes, heap,
                   shapeNodesWithConstraints, targetShapes, handedOut>>

GetShape(shapeNode) ==
    LET got == getShape([shapes |-> shapes, heap |-> heap], shapeNode)
    IN  /\ shapes' = got.shapes
        /\ heap' = got.heap
        /\ ret' = [op |-> "getShape", arg |-> shapeNode, val |-> got.shape]
        /\ handedOut' = handedOut \cup { <<shapeNode, got.shape>> }
        /\ UNCHANGED <<rdfShapesGraph, components, parametersMap,
                       shapeNodesWithConstraints, targetShapes>>

GetShapeNodesWithConstraints ==
    /\ shapeNodesWithConstraints' = getShapeNodesWithConstraints
    /\ ret' = [op |-> "getShapeNodesWithConstraints", arg |-> Undefined,
               val |-> shapeNodesWithConstraints'.list]
    /\ UNCHANGED <<rdfShapesGraph, components, parametersMap, shapes, heap, targetShapes,
                   handedOut>>

GetShapesWithTarget ==
    /\ IF ~targetShapes.defined
       THEN LET cs == getShapeNodesWithConstraints
                st == PushTargetShapes([shapes |-> shapes, heap |-> heap, list |-> <<>>],
                                       cs.list)
                kept == SelectSeq(cs.list, LAMBDA n : hasTarget(rdfShapesGraph, n))
            IN  /\ shapeNodesWithConstraints' = cs
                /\ shapes' = st.shapes
                /\ heap' = st.heap
                /\ targetShapes' = [defined |-> TRUE, list |-> st.list]
                /\ handedOut' = handedOut
                                    \cup { <<kept[i], st.list[i]>> : i \in 1..Len(st.list) }
       ELSE UNCHANGED <<shapeNodesWithConstraints, shapes, heap, targetShapes, handedOut>>
    /\ ret' = [op |-> "getShapesWithTarget", arg |-> Undefined, val |-> targetShapes'.list]
    /\ UNCHANGED <<rdfShapesGraph, components, parametersMap>>

Next ==
    \/ \E parameter \in Parameters : GetComponentWithParameter(parameter)
    \/ \E shapeNode \in ShapeNodes : GetShape(shapeNode)
    \/ GetShapeNodesWithConstraints
    \/ GetShapesWithTarget

Spec == Init /\ [][Next]_vars

-----------------------------------------------------------------------------
(* What the shapes graph declares, read off its triples *)

Triples == Range(rdfShapesGraph)

\* component node c declares a parameter with path p / a required one
Declares(c, p) ==
    \E t \in Triples : t[1] = c /\ t[2] = shParameter /\ <<t[3], shPath, p>> \in Triples

DeclaresRequired(c, p) ==
    \E t \in Triples :
        /\ t[1] = c /\ t[2] = shParameter
        /\ <<t[3], shPath, p>> \in Triples
        /\ <<t[3], shOptional, trueLiteral>> \notin Triples

Asserts(n, p) == \E t \in Triples : t[1] = n /\ t[2] = p

ComponentNodes == {t[1] : t \in {u \in Triples : u[2] = rdfType /\ u[3] = shConstraintComponent}}

PathsOf(c) ==
    {u[3] : u \in {u \in Triples :
                     u[2] = shPath /\ <<c, shParameter, u[1]>> \in Triples}}

\* n asserts every required parameter of c
AssertsAllRequired(n, c) == \A p \in PathsOf(c) : DeclaresRequired(c, p) => Asserts(n, p)

BearsRequiredParameter(n) ==
    \E c \in ComponentNodes : \E p \in PathsOf(c) : DeclaresRequired(c, p) /\ Asserts(n, p)

DeclaresTarget(n) ==
    \E t \in Triples :
        /\ t[1] = n
        /\ \/ t[2] \in TargetPredicates
           \/ t[2] = rdfType /\ t[3] = rdfsClass

Max(S) == CHOOSE x \in S : \A y \in S : y <= x

ConstraintsOf(shape, c) == SelectSeq(shape.constraints, LAMBDA k : k.component = c)

NoDuplicates(seq) == \A i, j \in 1..Len(seq) : seq[i] = seq[j] => i = j

-----------------------------------------------------------------------------
(* C1: every getShape(n), called directly or by getShapesWithTarget, answers
   the same Shape object for the same node n, and no node has a second
   Shape constructed for it. *)
C1_ReferentialStability ==
    /\ \A a, b \in handedOut : a[1] = b[1] => a[2] = b[2]
    /\ \A i, j \in 1..Len(heap) : heap[i].shapeNode = heap[j].shapeNode => i = j

\* a repeated getShape(n): it answers the Shape built for n by an earlier call
C1_Witness ==
    /\ ret.op = "getShape"
    /\ ret.val < Len(heap)
    /\ heap[ret.val].shapeNode = ret.arg

(* C10: the Shape that getShape(n) returns was built for n, so distinct nodes
   never share a Shape, not even an IRI and a blank node of equal value. *)
C10_ShapeBuiltForNode ==
    ret.op = "getShape" => heap[ret.val].shapeNode = ret.arg

(* C7: getComponentWithParameter(p) is the component constructed last among
   those declaring p, undefined when none declares it, in every state
   reachable after construction. *)
C7_LastRegistrationWins ==
    \A p \in Parameters :
        LET declaring == {i \in 1..Len(components) : Declares(components[i].node, p)}
            expected == IF declaring = {} THEN 0 ELSE Max(declaring)
        IN  /\ getComponentWithParameter(p) = expected
            /\ (ret.op = "getComponentWithParameter" /\ ret.arg = p) => ret.val = expected

\* ex:p is declared by both components, shapes have been built and the lists
\* computed, and the lookup answers the second component
C7_Witness ==
    /\ Declares(exA, exP) /\ Declares(exB, exP)
    /\ Len(heap) > 0 /\ targetShapes.defined
    /\ ret.op = "getComponentWithParameter" /\ ret.arg = exP /\ ret.val = 2

(* C3: for a component with exactly one parameter p that the index maps to
   it, every Shape holds one Constraint of that component per triple
   (shapeNode, p, v), binding the local name of p to v. *)
C3_OneConstraintPerValue ==
    \A h \in 1..Len(heap) : \A c \in 1..Len(components) :
        LET params == components[c].parameters
        IN  (Len(params) = 1 /\ getComponentWithParameter(params[1]) = c) =>
                LET cons == ConstraintsOf(heap[h], c)
                    asserted == match(rdfShapesGraph, heap[h].shapeNode, params[1], Wild)
                    name == getLocalName(params[1].value)
                IN  /\ Len(cons) = Len(asserted)
                    /\ \A i \in 1..Len(cons) :
                          /\ DOMAIN cons[i].parameterValues = {name}
                          /\ cons[i].parameterValues[name] = asserted[i][3]

\* a Shape with two Constraints of one single-parameter component, one per value
C3_Witness ==
    \E h \in 1..Len(heap) : \E c \in 1..Len(components) :
        /\ Len(components[c].parameters) = 1
        /\ Len(ConstraintsOf(heap[h], c)) = 2
        /\ ConstraintsOf(heap[h], c)[1].parameterValues
             # ConstraintsOf(heap[h], c)[2].parameterValues

(* C4: for a component with several parameters a Shape holds at most one
   Constraint, and one only if its node asserts every required parameter;
   when a required parameter is missing isComplete is false and the Shape
   holds no Constraint of the component. *)
C4_AtMostOneWhenComplete ==
    \A h \in 1..Len(heap) : \A c \in 1..Len(components) :
        LET n == heap[h].shapeNode
            cons == ConstraintsOf(heap[h], c)
        IN  Len(components[c].parameters) > 1 =>
                /\ Len(cons) <= 1
                /\ Len(cons) = 1 => isComplete(rdfShapesGraph, components[c], n)
                /\ ~AssertsAllRequired(n, components[c].node) =>
                      /\ ~isComplete(rdfShapesGraph, components[c], n)
                      /\ Len(cons) = 0

\* one Shape asserting both parameters of a two-parameter component holds one
\* Constraint of it, another asserting only one of them holds none
C4_Witness ==
    \E c \in 1..Len(components) : \E h1, h2 \in 1..Len(heap) :
        /\ Len(components[c].parameters) > 1
        /\ \A i \in 1..2 : Asserts(heap[h1].shapeNode, components[c].parameters[i])
        /\ Len(ConstraintsOf(heap[h1], c)) = 1
        /\ \E i \in 1..2 : Asserts(heap[h2].shapeNode, components[c].parameters[i])
        /\ ~AssertsAllRequired(heap[h2].shapeNode, components[c].node)
        /\ getComponentWithParameter(exP) = c
        /\ Len(ConstraintsOf(heap[h2], c)) = 0

-----------------------------------------------------------------------------
\* the nodes getShapesWithTarget keeps, in the order of the cached node list
KeptNodes == SelectSeq(shapeNodesWithConstraints.list, DeclaresTarget)

\* the Shape built for n holds a Constraint: n asserts a parameter whose
\* indexed component has one parameter or has all its required ones asserted
Constrainable(n) ==
    \E t \in Triples :
        /\ t[1] = n
        /\ LET c == getComponentWithParameter(t[2])
           IN  /\ c # 0
               /\ \/ Len(components[c].parameters) = 1
                  \/ AssertsAllRequired(n, components[c].node)

\* the state part of C8: what the two lists hold and what the calls answer
C8_TargetShapesState ==
    /\ shapeNodesWithConstraints.defined =>
          /\ NoDuplicates(shapeNodesWithConstraints.list)
          /\ \A n \in Range(shapeNodesWithConstraints.list) : BearsRequiredParameter(n)
          /\ \A t \in Triples :
                BearsRequiredParameter(t[1]) => t[1] \in Range(shapeNodesWithConstraints.list)
    /\ targetShapes.defined =>
          /\ shapeNodesWithConstraints.defined
          /\ Len(targetShapes.list) = Len(KeptNodes)
          /\ \A i \in 1..Len(KeptNodes) :
                targetShapes.list[i] = Get(shapes, KeptNodes[i].value)
    /\ ret.op = "getShapesWithTarget" => targetShapes.defined /\ ret.val = targetShapes.list
    /\ ret.op = "getShapeNodesWithConstraints" =>
          shapeNodesWithConstraints.defined /\ ret.val = shapeNodesWithConstraints.list

\* the step part of C8: once computed, neither list changes, whatever is called
C8_ListsKept ==
    /\ targetShapes.defined => targetShapes' = targetShapes
    /\ shapeNodesWithConstraints.defined =>
          shapeNodesWithConstraints' = shapeNodesWithConstraints

(* C8: the cached node list holds, once each, the subjects asserting a
   required parameter of some component; getShapesWithTarget answers the
   cached Shapes of those of them that declare a target (class, targetClass,
   targetNode, targetSubjectsOf, targetObjectsOf or target), in that order;
   the list is computed once and every later call answers the same list. *)
C8_TargetShapes == [](C8_TargetShapesState) /\ [][C8_ListsKept]_vars

\* a second getShapesWithTarget answering two Shapes, with a node bearing
\* constraints but no target left out
C8_Witness ==
    /\ ret.op = "getShapesWithTarget"
    /\ Len(ret.val) = 2
    /\ Len(shapeNodesWithConstraints.list) = 3
    /\ \A i \in 1..2 : heap[ret.val[i]].shapeNode = KeptNodes[i]

(* C9 as stated: every Shape of getShapesWithTarget holds a Constraint. *)
C9_EveryTargetShapeConstrained ==
    targetShapes.defined =>
        \A i \in 1..Len(targetShapes.list) :
            Len(getConstraints(heap[targetShapes.list[i]])) > 0

(* C9 as amended: every entry of getShapesWithTarget belongs to a node that
   asserts a required parameter of some component and declares a target; the
   Shape holds a Constraint exactly when its node asserts a parameter whose
   indexed component has one parameter or is complete on that node. *)
C9_TargetShapesBearParameters ==
    /\ targetShapes.defined =>
          /\ Len(targetShapes.list) = Len(KeptNodes)
          /\ \A i \in 1..Len(KeptNodes) :
                BearsRequiredParameter(KeptNodes[i]) /\ DeclaresTarget(KeptNodes[i])
    /\ \A h \in 1..Len(heap) :
          Len(getConstraints(heap[h])) > 0 <=> Constrainable(heap[h].shapeNode)

\* a target Shape built for a node that asserts a required parameter and yet
\* holds no Constraint
C9_Witness ==
    /\ targetShapes.defined
    /\ \E i \in 1..Len(targetShapes.list) :
          /\ heap[targetShapes.list[i]].shapeNode = KeptNodes[i]
          /\ BearsRequiredParameter(KeptNodes[i])
          /\ Len(getConstraints(heap[targetShapes.list[i]])) = 0

-----------------------------------------------------------------------------
(* Target-node discovery: the shapes graphs and data graphs it is run on *)

nodeA == NamedNode("a")
nodeB == NamedNode("b")
genericTarget == BlankNode("target")
graph1 == NamedNode("g1")
graph2 == NamedNode("g2")

\* the target declarations of s
TargetDeclUniverse ==
    << <<nodeS, rdfType, rdfsClass>>,
       <<nodeS, shTargetClass, exC>>,
       <<nodeS, shTargetClass, exD>>,
       <<nodeS, shTargetNode, nodeA>>,
       <<nodeS, shTargetSubjectsOf, exKnows>>,
       <<nodeS, shTargetObjectsOf, exKnows>>,
       <<nodeS, shTarget, genericTarget>> >>

TargetDeclGraphs ==
    { ComponentTriples(exA, <<Decl(exP, FALSE)>>) \o << <<nodeS, exP, Value(1)>> >>
        \o Chosen(TargetDeclUniverse, chosen) :
        chosen \in SUBSET Range(TargetDeclUniverse) }

\* the statements of a data graph; a statement carries the graph of the
\* dataset it is asserted in, which no pattern of the model looks at
DataUniverse ==
    << <<nodeA, rdfType, exC, graph1>>,
       <<nodeA, rdfType, exC, graph2>>,
       <<nodeB, rdfType, exD, graph1>>,
       <<nodeA, rdfType, nodeS, graph1>>,
       <<nodeA, exKnows, nodeB, graph1>>,
       <<nodeB, exKnows, Value(1), graph1>> >>

DataGraphs == { Chosen(DataUniverse, chosen) : chosen \in SUBSET Range(DataUniverse) }

InitTargets ==
    /\ rdfShapesGraph \in TargetDeclGraphs
    /\ Constructed

GetTargetNodes(shape, rdfDataGraph) ==
    /\ ret' = [op |-> "getTargetNodes",
               arg |-> [shape |-> shape, rdfDataGraph |-> rdfDataGraph],
               val |-> getTargetNodes(rdfShapesGraph, heap[shape], rdfDataGraph)]
    /\ UNCHANGED <<rdfShapesGraph, components, parametersMap, shapes, heap,
                   shapeNodesWithConstraints, targetShapes, handedOut>>

NextTargets ==
    \/ GetShape(nodeS)
    \/ \E shape \in 1..Len(heap) : \E rdfDataGraph \in DataGraphs :
          GetTargetNodes(shape, rdfDataGraph)

SpecTargets == InitTargets /\ [][NextTargets]_vars

\* the five sources of target nodes of shape node n in data graph d
ImplicitClassTargets(n, d) ==
    IF <<n, rdfType, rdfsClass>> \in Triples
    THEN {t[1] : t \in {u \in Range(d) : u[2] = rdfType /\ u[3] = n}}
    ELSE {}
TargetClassInstances(n, d) ==
    {t[1] : t \in {u \in Range(d) : u[2] = rdfType /\ <<n, shTargetClass, u[3]>> \in Triples}}
TargetNodes(n) ==
    {t[3] : t \in {u \in Triples : u[1] = n /\ u[2] = shTargetNode}}
TargetSubjects(n, d) ==
    {t[1] : t \in {u \in Range(d) : <<n, shTargetSubjectsOf, u[2]>> \in Triples}}
TargetObjects(n, d) ==
    {t[3] : t \in {u \in Range(d) : <<n, shTargetObjectsOf, u[2]>> \in Triples}}

(* C2: getTargetNodes answers, each term once, exactly the union of the
   implicit-class instances, the target-class instances, the target nodes,
   the subjects of target-subjects-of predicates and the objects of
   target-objects-of predicates; a generic sh:target adds nothing. *)
C2_TargetNodesAreTheUnion ==
    ret.op = "getTargetNodes" =>
        LET n == heap[ret.arg.shape].shapeNode
            d == ret.arg.rdfDataGraph
        IN  /\ NoDuplicates(ret.val)
            /\ Range(ret.val) = ImplicitClassTargets(n, d) \cup TargetClassInstances(n, d)
                                  \cup TargetNodes(n) \cup TargetSubjects(n, d)
                                  \cup TargetObjects(n, d)

\* all five sources and a generic target are declared, a is typed ex:C by two
\* statements and reached through every source, and is answered once
C2_Witness ==
    /\ ret.op = "getTargetNodes"
    /\ Range(TargetDeclUniverse) \subseteq Triples
    /\ ret.arg.rdfDataGraph = DataUniverse
    /\ heap[ret.arg.shape].shapeNode = nodeS
    /\ ret.val = <<nodeA, nodeB, Value(1)>>

\* a shape with nothing but a target class, on a data graph typing a twice
C2_WitnessTargetClassOnly ==
    /\ ret.op = "getTargetNodes"
    /\ {t \in Triples : t[1] = nodeS /\ t[2] # exP} = { <<nodeS, shTargetClass, exC>> }
    /\ ret.arg.rdfDataGraph = DataUniverse
    /\ ret.val = <<nodeA>>

-----------------------------------------------------------------------------
(* Path compilation: the property shapes it is run on *)

blank1 == BlankNode("b1")
blank2 == BlankNode("b2")
unclassified == Literal("knows")

\* the terms a path may mention
PathMembers == {exKnows, blank1, blank2, unclassified}

UnaryMarkers == {shZeroOrMorePath, shOneOrMorePath, shZeroOrOnePath, shInversePath}

\* a well-formed two-element RDF list starting at head
ListTriples(head, rest, members) ==
    << <<head, rdfFirst, members[1]>>, <<head, rdfRest, rest>>,
       <<rest, rdfFirst, members[2]>>, <<rest, rdfRest, rdfNil>> >>

MemberPairs == { <<m, n>> : m \in PathMembers, n \in {exKnows, blank2} }

RestOf(b) == BlankNode(IF b = blank1 THEN "r1" ELSE "r2")
AlternativesOf(b) == BlankNode(IF b = blank1 THEN "l1" ELSE "l2")

\* what the shapes graph may say of blank node b: nothing, one unary marker,
\* two of them, an alternative-path list, or that b is itself a list
PathForms(b) ==
    { <<>> }
    \cup { << <<b, m, o>> >> : m \in UnaryMarkers, o \in PathMembers }
    \cup { << <<b, shInversePath, o>>, <<b, shZeroOrMorePath, o>> >> : o \in PathMembers }
    \cup { << <<b, shAlternativePath, AlternativesOf(b)>> >>
             \o ListTriples(AlternativesOf(b), RestOf(b), pair) : pair \in MemberPairs }
    \cup { ListTriples(b, RestOf(b), pair) : pair \in MemberPairs }

\* the sh:path of s: none (a node shape), or one of these terms
PathRoots ==
    {exKnows, blank1, unclassified,
     Collection("c", <<exKnows, blank1>>), Collection("c", <<blank1, unclassified>>)}

PathGraphs ==
    { root \o f1 \o f2 :
        root \in { <<>> } \cup { << <<nodeS, shPath, r>> >> : r \in PathRoots },
        f1 \in PathForms(blank1), f2 \in PathForms(blank2) }

\* the data graph value nodes are looked up in
KnowsGraph ==
    << <<nodeA, exKnows, nodeB, graph1>>,
       <<nodeB, exKnows, nodeA, graph1>>,
       <<nodeB, exKnows, Value(1), graph1>> >>

InitPath ==
    /\ rdfShapesGraph \in PathGraphs
    /\ Constructed

GetValueNodes(shape, focusNode, rdfDataGraph) ==
    /\ ret' = [op |-> "getValueNodes",
               arg |-> [shape |-> shape, focusNode |-> focusNode,
                        rdfDataGraph |-> rdfDataGraph],
               val |-> getValueNodes(rdfShapesGraph, heap[shape], focusNode, rdfDataGraph)]
    /\ UNCHANGED <<rdfShapesGraph, components, parametersMap, shapes, heap,
                   shapeNodesWithConstraints, targetShapes, handedOut>>

NextPath ==
    \/ GetShape(nodeS)
    \/ \E shape \in 1..Len(heap) : \E focusNode \in {nodeA, nodeB} :
          GetValueNodes(shape, focusNode, KnowsGraph)

SpecPath == InitPath /\ [][NextPath]_vars

(* C5: compiling a path that reaches itself ends without exhausting the call
   stack: getValueNodes never fails with a stack overflow. *)
C5_CyclicPathsTerminate ==
    ret.op = "getValueNodes" =>
        ~(ret.val.kind = "error" /\ ret.val.error = StackOverflow(Undefined).error)

-----------------------------------------------------------------------------
(* What the shapes graph says of a path term, read off its triples *)

PathMarkers == UnaryMarkers \cup {shAlternativePath, rdfFirst}

\* the terms the compiler has a reading for
Classified(t) ==
    \/ t.termType = "NamedNode"
    \/ t.termType = "Collection"
    \/ t.termType = "BlankNode" /\ \E u \in Triples : u[1] = t /\ u[2] \in PathMarkers

ObjectsOf(t, p) == {u[3] : u \in {v \in Triples : v[1] = t /\ v[2] = p}}

\* the members of the list that starts at cell, in list order
RECURSIVE MembersInOrder(_)
MembersInOrder(cell) ==
    IF ObjectsOf(cell, rdfFirst) = {} THEN <<>>
    ELSE <<CHOOSE m \in ObjectsOf(cell, rdfFirst) : TRUE>>
         \o (IF ObjectsOf(cell, rdfRest) = {} THEN <<>>
             ELSE MembersInOrder(CHOOSE r \in ObjectsOf(cell, rdfRest) : TRUE))

\* the terms directly under t in a path
SubPaths(t) ==
    IF t.termType = "Collection" THEN Range(t.elements)
    ELSE IF t.termType = "BlankNode"
    THEN Range(MembersInOrder(t))
         \cup UNION {Range(MembersInOrder(l)) : l \in ObjectsOf(t, shAlternativePath)}
         \cup UNION {ObjectsOf(t, m) : m \in UnaryMarkers}
    ELSE {}

RECURSIVE Under(_)
Under(terms) ==
    LET more == terms \cup UNION {SubPaths(t) : t \in terms}
    IN  IF more = terms THEN terms ELSE Under(more)

\* root and every term nested in it
Nested(root) == Under({root})

\* some term nested in root is nested in itself
Cyclic(root) == \E t \in Nested(root) : t \in Under(SubPaths(t))

OperatorOf(marker) ==
    CASE marker = shZeroOrMorePath -> "zeroOrMore"
      [] marker = shOneOrMorePath -> "oneOrMore"
      [] marker = shZeroOrOnePath -> "zeroOrOne"
      [] marker = shInversePath -> "inverse"

CompiledEach(members, paths) ==
    /\ Len(paths) = Len(members)
    /\ \A i \in 1..Len(members) :
          Returned(paths[i]) = toRDFQueryPath(rdfShapesGraph, members[i], 1)

\* compiled is the reading of t: the predicate itself, the sequence of a
\* list's compiled members, or the operator of a marker t bears around the
\* compiled sub-path
ReadingOf(t, compiled) ==
    IF t.termType = "NamedNode" THEN compiled = Predicate(t)
    ELSE IF t.termType = "Collection"
    THEN compiled.op = "sequence" /\ CompiledEach(t.elements, compiled.paths)
    ELSE IF ObjectsOf(t, rdfFirst) # {}
    THEN compiled.op = "sequence" /\ CompiledEach(MembersInOrder(t), compiled.paths)
    ELSE IF ObjectsOf(t, shAlternativePath) # {}
    THEN /\ compiled.op = "or"
         /\ \E l \in ObjectsOf(t, shAlternativePath) :
               CompiledEach(MembersInOrder(l), compiled.paths)
    ELSE \E m \in UnaryMarkers : \E o \in ObjectsOf(t, m) :
            /\ compiled.op = OperatorOf(m)
            /\ Returned(compiled.path) = toRDFQueryPath(rdfShapesGraph, o, 1)

(* C6: toRDFQueryPath returns a path only for an IRI, a list or a blank node
   bearing a path marker, and then the reading that term calls for, at every
   level of the path; a term of any other kind, at the root or nested in an
   acyclic path, makes it throw 'Unsupported SHACL path' for that term, and
   getValueNodes passes the error on to its caller. *)
C6_UnsupportedPathsThrow ==
    (ret.op = "getValueNodes" /\ heap[ret.arg.shape].path # Undefined) =>
        LET root == heap[ret.arg.shape].path
            compiled == toRDFQueryPath(rdfShapesGraph, root, 1)
            unclassifiedTerms == {t \in Nested(root) : ~Classified(t)}
        IN  /\ compiled.kind = "path" <=> (unclassifiedTerms = {} /\ ~Cyclic(root))
            /\ compiled.kind = "path" =>
                  /\ ret.val.kind = "nodes"
                  /\ \A t \in Nested(root) :
                        LET reading == toRDFQueryPath(rdfShapesGraph, t, 1)
                        IN  reading.kind = "path" /\ ReadingOf(t, reading.path)
            /\ (unclassifiedTerms # {} /\ ~Cyclic(root)) =>
                  /\ compiled.kind = "error"
                  /\ compiled.error = "Unsupported SHACL path"
                  /\ compiled.term \in unclassifiedTerms
            /\ \A t \in unclassifiedTerms :
                  toRDFQueryPath(rdfShapesGraph, t, 1) = Unsupported(t)
            /\ compiled.kind = "error" => ret.val = compiled

\* a blank node without any marker, two levels down in the path of s, makes
\* getValueNodes fail with the unsupported-path error
C6_Witness ==
    /\ ret.op = "getValueNodes"
    /\ heap[ret.arg.shape].path = Collection("c", <<exKnows, blank1>>)
    /\ blank2 \in SubPaths(blank1)
    /\ ret.val = Unsupported(blank2)

\* a path of three levels compiles and value nodes are answered
C6_WitnessCompiled ==
    /\ ret.op = "getValueNodes"
    /\ heap[ret.arg.shape].path = Collection("c", <<exKnows, blank1>>)
    /\ blank2 \in SubPaths(blank1)
    /\ ret.val.kind = "nodes"
    /\ Len(ret.val.nodes) > 0

=============================================================================
